---- MODULE Spec2Model ----
(***************************************************************************)
(* Model of src/src/main.py, the bootstrap of the FKS Futures Trading      *)
(* Service: the module-level start-up sequence (optional health router,    *)
(* FastAPI application, Prometheus registry and /metrics route, health     *)
(* router registration, root route), the __main__ block that reads         *)
(* SERVICE_PORT and hands the application to uvicorn, the startup hook,    *)
(* and the dispatch of GET requests over the route table.                  *)
(*                                                                         *)
(* One process, one thread of control: pc is the statement the module      *)
(* body has reached.  What the process finds in its surroundings (whether  *)
(* api.routes.health imports, which step of the metrics set-up raises,     *)
(* what SERVICE_PORT holds) is drawn in Init and never changes.            *)
(***************************************************************************)
EXTENDS Integers, Sequences, FiniteSets, TLC

VARIABLES
    pc,                 \* statement of main.py the process has reached
    environ,            \* os.environ restricted to SERVICE_PORT
    healthImport,       \* what `from api.routes.health import router` does
    metricsFault,       \* the statement of the metrics try-block that raises
    health_router,      \* module global health_router
    routes,             \* app.router.routes, in registration order
    on_startup,         \* handlers registered with @app.on_event("startup")
    metrics_registry,   \* module global _metrics_registry
    log,                \* records emitted at WARNING or INFO by `logger`
    lifecycle,          \* "Initializing" until the startup hook has run
    port,               \* local `port` of the __main__ block
    listening,          \* set of ports the server accepts connections on
    responses,          \* responses served so far, oldest first
    writes,             \* number of sample writes made to the registry
    exc,                \* exception in flight or escaped ("none" if none)
    traceback           \* statement whose exception no handler took ("none" if none)

vars == <<pc, environ, healthImport, metricsFault, health_router, routes,
          on_startup, metrics_registry, log, lifecycle, port, listening,
          responses, writes, exc, traceback>>

(***************************************************************************)
(* Bounds                                                                  *)
(***************************************************************************)
MaxRequests == 3

(***************************************************************************)
(* Strings are sequences of one-character strings, so that int() can be    *)
(* modelled by what it does to the characters.                             *)
(***************************************************************************)
DigitChars == {"0", "1", "2", "3", "4", "5", "6", "7", "8", "9"}

IsDigit(c) == c \in DigitChars

IsSpace(c) == c \in {" ", "\t", "\n"}

DigitVal(c) ==
    CASE c = "0" -> 0 [] c = "1" -> 1 [] c = "2" -> 2 [] c = "3" -> 3
      [] c = "4" -> 4 [] c = "5" -> 5 [] c = "6" -> 6 [] c = "7" -> 7
      [] c = "8" -> 8 [] c = "9" -> 9

RECURSIVE LStrip(_)
LStrip(s) == IF s # <<>> /\ IsSpace(Head(s)) THEN LStrip(Tail(s)) ELSE s

RECURSIVE RStrip(_)
RStrip(s) ==
    IF s # <<>> /\ IsSpace(s[Len(s)])
    THEN RStrip(SubSeq(s, 1, Len(s) - 1))
    ELSE s

Strip(s) == RStrip(LStrip(s))

HasSign(s) == s # <<>> /\ Head(s) \in {"+", "-"}

Unsigned(s) == IF HasSign(s) THEN Tail(s) ELSE s

\* A decimal literal: digits, with single underscores allowed between digits.
ValidDigits(d) ==
    /\ d # <<>>
    /\ \A i \in 1..Len(d) :
          \/ IsDigit(d[i])
          \/ /\ d[i] = "_"
             /\ i > 1
             /\ i < Len(d)
             /\ IsDigit(d[i - 1])
             /\ IsDigit(d[i + 1])

RECURSIVE DigitsValue(_, _)
DigitsValue(d, acc) ==
    IF d = <<>> THEN acc
    ELSE IF Head(d) = "_" THEN DigitsValue(Tail(d), acc)
    ELSE DigitsValue(Tail(d), 10 * acc + DigitVal(Head(d)))

PyIntDropsLastDigit(s) ==
    LET t == Strip(s)
        d == Unsigned(t)
        e == IF Len(d) > 1 THEN SubSeq(d, 1, Len(d) - 1) ELSE d
    IN  [ok    |-> ValidDigits(d),
         value |-> IF ValidDigits(d)
                   THEN (IF HasSign(t) /\ Head(t) = "-" THEN -1 ELSE 1)
                        * DigitsValue(e, 0)
                   ELSE 0]

\* int(s) for a str s: ok = FALSE stands for ValueError.
PyInt(s) ==
    LET t == Strip(s)
        d == Unsigned(t)
    IN  [ok    |-> ValidDigits(d),
         value |-> IF ValidDigits(d)
                   THEN (IF HasSign(t) /\ Head(t) = "-" THEN -1 ELSE 1)
                        * DigitsValue(d, 0)
                   ELSE 0]

\* os.getenv(name, default) on the one variable the program reads.
Getenv(env, default) == IF env.set THEN env.value ELSE default

DefaultPortStr == <<"8", "0", "1", "5">>

EnvUnset == [set |-> FALSE, value |-> <<>>]

EnvSet(s) == [set |-> TRUE, value |-> s]

\* The values of SERVICE_PORT the model starts from.
EnvValues ==
    { EnvUnset,
      EnvSet(<<"9", "9", "9", "9">>),
      EnvSet(<<"8", "0", "8", "0">>),
      EnvSet(<<"8", "0", "1", "5">>),
      EnvSet(<<" ", "9", "0", "9", "0", "\n">>),
      EnvSet(<<"+", "9", "_", "0", "0", "1">>),
      EnvSet(<<>>),
      EnvSet(<<"a", "b", "c">>),
      EnvSet(<<"9", "9", ".", "9">>),
      EnvSet(<<"8", "0", "_">>) }

(***************************************************************************)
(* Exceptions: the part of Python's class hierarchy the except clauses     *)
(* of main.py are matched against.                                         *)
(***************************************************************************)
BaseOf(e) ==
    CASE e = "ModuleNotFoundError" -> "ImportError"
      [] e = "PermissionError" -> "OSError"
      [] e \in {"ImportError", "RuntimeError", "ValueError", "OSError"} -> "Exception"
      [] OTHER -> "BaseException"

RECURSIVE IsInstance(_, _)
IsInstance(e, cls) ==
    \/ e = cls
    \/ e # "BaseException" /\ IsInstance(BaseOf(e), cls)

\* What importing api.routes.health can do: succeed, or raise because the
\* module is missing, because it has no `router`, or from its own body.
HealthOutcomes == {"ok", "ModuleNotFoundError", "ImportError", "RuntimeError"}

\* The statement of the metrics try-block that raises, if any.
MetricsFaults == {"none", "import", "registry", "gauge", "set"}

MetricsException(step) ==
    CASE step = "import" -> "ModuleNotFoundError"
      [] step = "registry" -> "RuntimeError"
      [] step = "gauge" -> "ValueError"
      [] step = "set" -> "PermissionError"

(***************************************************************************)
(* Logging                                                                 *)
(***************************************************************************)
HealthWarning == [level |-> "WARNING", msg |-> "Could not import health router"]

MetricsWarning == [level |-> "WARNING", msg |-> "Could not set up Prometheus metrics"]

MetricsInfo == [level |-> "INFO", msg |-> "Prometheus metrics with fks_build_info registered"]

StartingInfo == [level |-> "INFO", msg |-> "Starting FKS Futures Trading Service..."]

StartedInfo == [level |-> "INFO", msg |-> "FKS Futures Trading Service started successfully"]

(***************************************************************************)
(* Route table                                                             *)
(***************************************************************************)
Route(path, endpoint) == [path |-> path, endpoint |-> endpoint]

\* FastAPI(...) with default arguments binds the schema and documentation routes.
FastAPIDefaultRoutes ==
    << Route("/openapi.json", "openapi"),
       Route("/docs", "swagger_ui_html"),
       Route("/docs/oauth2-redirect", "swagger_ui_redirect"),
       Route("/redoc", "redoc_html") >>

\* The routes of api.routes.health.router.
HealthRouterRoutes == << Route("/health", "health") >>

HealthPaths == { HealthRouterRoutes[i].path : i \in DOMAIN HealthRouterRoutes }

\* Truth value of the module global health_router in `if health_router:`.
Truthy(v) == v = "Present"

Paths(rs) == { rs[i].path : i \in DOMAIN rs }

\* The router takes the first route, in registration order, that matches.
RECURSIVE Match(_, _)
Match(rs, path) ==
    IF rs = <<>> THEN "none"
    ELSE IF Head(rs).path = path THEN Head(rs).endpoint
    ELSE Match(Tail(rs), path)

(***************************************************************************)
(* Metrics registry                                                        *)
(***************************************************************************)
NoRegistry == [exists |-> FALSE, families |-> <<>>]

EmptyRegistry == [exists |-> TRUE, families |-> <<>>]

BuildInfoGauge ==
    [name          |-> "fks_build_info",
     documentation |-> "Build information for the service",
     type          |-> "gauge",
     labelnames    |-> <<"service", "version">>,
     samples       |-> <<>>]

BuildInfoSample == [labels |-> <<"fks_futures", "1.0.0">>, value |-> 1]

\* Gauge(..., registry=reg): the family joins the registry, without samples.
RegisterGauge(reg, g) == [reg EXCEPT !.families = Append(@, g)]

\* The samples of a family after labels(*s.labels).set(s.value): the child
\* with these label values is created on first use and overwritten after.
WithSample(samples, s) ==
    IF \E i \in DOMAIN samples : samples[i].labels = s.labels
    THEN [i \in DOMAIN samples |->
             IF samples[i].labels = s.labels THEN s ELSE samples[i]]
    ELSE Append(samples, s)

\* _build_info.labels(...).set(v): _build_info is the last family registered.
SetSample(reg, s) ==
    [reg EXCEPT !.families[Len(reg.families)].samples = WithSample(@, s)]

\* How the exposition format writes a sample value.
FloatToGoString(v) ==
    CASE v = 0 -> "0.0" [] v = 1 -> "1.0" [] v = 2 -> "2.0" [] v = 3 -> "3.0"
      [] OTHER -> "NaN"

Line(kind, name, labels, text) ==
    [kind |-> kind, name |-> name, labels |-> labels, text |-> text]

SampleLine(f, s) ==
    Line("sample", f.name,
         [i \in DOMAIN f.labelnames |-> <<f.labelnames[i], s.labels[i]>>],
         FloatToGoString(s.value))

FamilyLines(f) ==
    << Line("# HELP", f.name, <<>>, f.documentation),
       Line("# TYPE", f.name, <<>>, f.type) >>
    \o [i \in DOMAIN f.samples |-> SampleLine(f, f.samples[i])]

RECURSIVE RenderFamilies(_)
RenderFamilies(fs) ==
    IF fs = <<>> THEN <<>>
    ELSE FamilyLines(Head(fs)) \o RenderFamilies(Tail(fs))

\* generate_latest(registry).decode("utf-8"), as a sequence of lines.
generate_latest(reg) == RenderFamilies(reg.families)

HoldsBuildInfo(reg) ==
    /\ reg.exists
    /\ \E i \in DOMAIN reg.families :
          /\ reg.families[i].name = "fks_build_info"
          /\ reg.families[i].samples = << BuildInfoSample >>

(***************************************************************************)
(* Request handlers                                                        *)
(***************************************************************************)
Response(status, media, body) == [status |-> status, media |-> media, body |-> body]

ServiceDescriptor ==
    [service   |-> "fks_futures",
     version   |-> "1.0.0",
     status    |-> "running",
     endpoints |-> [health |-> "/health"],
     features  |-> << "Futures market analysis",
                      "Signal generation",
                      "Integration with fks-app, fks-execution, fks-data" >>]

rootStatusFromHealth ==
    Response(IF health_router = "Present" THEN 200 ELSE 503,
             "application/json", ServiceDescriptor)

rootListsLoaded ==
    Response(200, "application/json",
             [ServiceDescriptor EXCEPT
                 !.endpoints = IF health_router = "Present"
                               THEN @ ELSE [health |-> "unavailable"]])

\* Lines 80-95: async def root()
root == Response(200, "application/json", ServiceDescriptor)

\* The handler reads the module global; without it the framework answers 500.
metrics_endpoint(reg) ==
    IF reg.exists
    THEN Response(200, "text/plain; version=0.0.4; charset=utf-8",
                  [text |-> generate_latest(reg)])
    ELSE Response(500, "text/plain", [detail |-> "Internal Server Error"])

health_endpoint == Response(200, "application/json", [status |-> "healthy"])

NotFound == Response(404, "application/json", [detail |-> "Not Found"])

FrameworkPage(endpoint) == Response(200, "text/html", [page |-> endpoint])

\* GET path, answered by the first matching route of the table.
Dispatch(rs, reg, path) ==
    LET e == Match(rs, path)
    IN  CASE e = "none" -> NotFound
          [] e = "root" -> root
          [] e = "metrics_endpoint" -> metrics_endpoint(reg)
          [] e = "health" -> health_endpoint
          [] OTHER -> FrameworkPage(e)

RequestPaths == {"/", "/metrics", "/health", "/signals"}

(***************************************************************************)
(* Initial state: the interpreter is about to execute the module body.     *)
(***************************************************************************)
Init ==
    /\ pc = "import_health"
    /\ environ \in EnvValues
    /\ healthImport \in HealthOutcomes
    /\ metricsFault \in MetricsFaults
    /\ health_router = "unbound"
    /\ routes = <<>>
    /\ on_startup = <<>>
    /\ metrics_registry = NoRegistry
    /\ log = <<>>
    /\ lifecycle = "Initializing"
    /\ port = -1
    /\ listening = {}
    /\ responses = <<>>
    /\ writes = 0
    /\ exc = "none"
    /\ traceback = "none"

\* The class named by the except clause that guards the health import.
HealthExceptClause == "ImportError"

\* The class named by the except clause that guards the metrics set-up.
MetricsExceptClause == "Exception"

\* An exception no handler takes ends the process.
Crash(e) ==
    /\ pc' = "crashed"
    /\ exc' = e
    /\ traceback' = pc

(***************************************************************************)
(* Lines 22-27: try: from api.routes.health import router as health_router *)
(***************************************************************************)
ImportHealthLogsTwice ==
    /\ pc = "import_health"
    /\ IF healthImport = "ok"
       THEN /\ health_router' = "Present"
            /\ pc' = "create_app"
            /\ UNCHANGED <<log, exc, traceback>>
       ELSE IF IsInstance(healthImport, HealthExceptClause)
       THEN /\ log' = log \o <<HealthWarning, HealthWarning>>
            /\ health_router' = "None"
            /\ pc' = "create_app"
            /\ UNCHANGED <<exc, traceback>>
       ELSE /\ Crash(healthImport)
            /\ UNCHANGED <<health_router, log>>
    /\ UNCHANGED <<environ, healthImport, metricsFault, routes, on_startup,
                   metrics_registry, lifecycle, port, listening, responses, writes>>

ImportHealth ==
    /\ pc = "import_health"
    /\ IF healthImport = "ok"
       THEN /\ health_router' = "Present"
            /\ pc' = "create_app"
            /\ UNCHANGED <<log, exc, traceback>>
       ELSE IF IsInstance(healthImport, HealthExceptClause)
       THEN /\ log' = Append(log, HealthWarning)
            /\ health_router' = "None"
            /\ pc' = "create_app"
            /\ UNCHANGED <<exc, traceback>>
       ELSE /\ Crash(healthImport)
            /\ UNCHANGED <<health_router, log>>
    /\ UNCHANGED <<environ, healthImport, metricsFault, routes, on_startup,
                   metrics_registry, lifecycle, port, listening, responses, writes>>

(***************************************************************************)
(* Lines 29-42: app = FastAPI(...); app.add_middleware(CORSMiddleware, ..) *)
(***************************************************************************)
CreateApp ==
    /\ pc = "create_app"
    /\ routes' = FastAPIDefaultRoutes
    /\ pc' = "metrics_import"
    /\ UNCHANGED <<environ, healthImport, metricsFault, health_router, on_startup,
                   metrics_registry, log, lifecycle, port, listening, responses,
                   writes, exc, traceback>>

(***************************************************************************)
(* Lines 44-66: the metrics try-block, one action per statement.  A        *)
(* statement that raises leaves its assignment undone and passes control   *)
(* to the except clause.                                                   *)
(***************************************************************************)
Raise(step) ==
    /\ exc' = MetricsException(step)
    /\ pc' = "metrics_except"

\* Lines 46-47: the imports.
MetricsImport ==
    /\ pc = "metrics_import"
    /\ IF metricsFault = "import"
       THEN Raise("import")
       ELSE /\ pc' = "metrics_registry"
            /\ UNCHANGED exc
    /\ UNCHANGED <<environ, healthImport, metricsFault, health_router, routes,
                   on_startup, metrics_registry, log, lifecycle, port, listening,
                   responses, writes, traceback>>

\* Line 49: _metrics_registry = CollectorRegistry()
MetricsCreateRegistry ==
    /\ pc = "metrics_registry"
    /\ IF metricsFault = "registry"
       THEN /\ Raise("registry")
            /\ UNCHANGED metrics_registry
       ELSE /\ metrics_registry' = EmptyRegistry
            /\ pc' = "metrics_gauge"
            /\ UNCHANGED exc
    /\ UNCHANGED <<environ, healthImport, metricsFault, health_router, routes,
                   on_startup, log, lifecycle, port, listening, responses, writes,
                   traceback>>

\* Lines 50-55: _build_info = Gauge("fks_build_info", ..., registry=...)
MetricsCreateGauge ==
    /\ pc = "metrics_gauge"
    /\ IF metricsFault = "gauge"
       THEN /\ Raise("gauge")
            /\ UNCHANGED metrics_registry
       ELSE /\ metrics_registry' = RegisterGauge(metrics_registry, BuildInfoGauge)
            /\ pc' = "metrics_set"
            /\ UNCHANGED exc
    /\ UNCHANGED <<environ, healthImport, metricsFault, health_router, routes,
                   on_startup, log, lifecycle, port, listening, responses, writes,
                   traceback>>

MetricsSetBuildInfoTwice ==
    /\ pc = "metrics_set"
    /\ IF metricsFault = "set"
       THEN /\ Raise("set")
            /\ UNCHANGED <<metrics_registry, writes>>
       ELSE /\ metrics_registry' =
                   SetSample(SetSample(metrics_registry, BuildInfoSample),
                             [BuildInfoSample EXCEPT !.value = 2])
            /\ writes' = writes + 2
            /\ pc' = "metrics_route"
            /\ UNCHANGED exc
    /\ UNCHANGED <<environ, healthImport, metricsFault, health_router, routes,
                   on_startup, log, lifecycle, port, listening, responses,
                   traceback>>

\* Line 56: _build_info.labels(service=..., version=...).set(1)
MetricsSetBuildInfo ==
    /\ pc = "metrics_set"
    /\ IF metricsFault = "set"
       THEN /\ Raise("set")
            /\ UNCHANGED <<metrics_registry, writes>>
       ELSE /\ metrics_registry' = SetSample(metrics_registry, BuildInfoSample)
            /\ writes' = writes + 1
            /\ pc' = "metrics_route"
            /\ UNCHANGED exc
    /\ UNCHANGED <<environ, healthImport, metricsFault, health_router, routes,
                   on_startup, log, lifecycle, port, listening, responses,
                   traceback>>

\* Lines 58-64: @app.get("/metrics", ...) and the info record.
MetricsBindRoute ==
    /\ pc = "metrics_route"
    /\ routes' = Append(routes, Route("/metrics", "metrics_endpoint"))
    /\ log' = Append(log, MetricsInfo)
    /\ pc' = "register_health"
    /\ UNCHANGED <<environ, healthImport, metricsFault, health_router, on_startup,
                   metrics_registry, lifecycle, port, listening, responses,
                   writes, exc, traceback>>

MetricsExceptBindsRoute ==
    /\ pc = "metrics_except"
    /\ IF IsInstance(exc, MetricsExceptClause)
       THEN /\ log' = Append(log, MetricsWarning)
            /\ routes' = Append(routes, Route("/metrics", "metrics_endpoint"))
            /\ exc' = "none"
            /\ UNCHANGED traceback
            /\ pc' = "register_health"
       ELSE /\ Crash(exc)
            /\ UNCHANGED <<log, routes>>
    /\ UNCHANGED <<environ, healthImport, metricsFault, health_router,
                   on_startup, metrics_registry, lifecycle, port, listening,
                   responses, writes>>

\* Lines 65-66: except Exception as e: logger.warning(...)
MetricsExcept ==
    /\ pc = "metrics_except"
    /\ IF IsInstance(exc, MetricsExceptClause)
       THEN /\ log' = Append(log, MetricsWarning)
            /\ exc' = "none"
            /\ UNCHANGED traceback
            /\ pc' = "register_health"
       ELSE /\ Crash(exc)
            /\ UNCHANGED log
    /\ UNCHANGED <<environ, healthImport, metricsFault, health_router, routes,
                   on_startup, metrics_registry, lifecycle, port, listening,
                   responses, writes>>

(***************************************************************************)
(* Lines 68-70: if health_router: app.include_router(health_router, ...)   *)
(***************************************************************************)
RegisterHealthUnguarded ==
    /\ pc = "register_health"
    /\ routes' = routes \o HealthRouterRoutes
    /\ pc' = "define_handlers"
    /\ UNCHANGED <<environ, healthImport, metricsFault, health_router, on_startup,
                   metrics_registry, log, lifecycle, port, listening, responses,
                   writes, exc, traceback>>

RegisterHealth ==
    /\ pc = "register_health"
    /\ routes' = IF Truthy(health_router) THEN routes \o HealthRouterRoutes ELSE routes
    /\ pc' = "define_handlers"
    /\ UNCHANGED <<environ, healthImport, metricsFault, health_router, on_startup,
                   metrics_registry, log, lifecycle, port, listening, responses,
                   writes, exc, traceback>>

(***************************************************************************)
(* Lines 73-95: the decorators register startup_event and bind GET /.      *)
(***************************************************************************)
DefineHandlers ==
    /\ pc = "define_handlers"
    /\ on_startup' = Append(on_startup, "startup_event")
    /\ routes' = Append(routes, Route("/", "root"))
    /\ pc' = "main_block"
    /\ UNCHANGED <<environ, healthImport, metricsFault, health_router,
                   metrics_registry, log, lifecycle, port, listening, responses,
                   writes, exc, traceback>>

(***************************************************************************)
(* Lines 98-100: port = int(os.getenv("SERVICE_PORT", "8015"))             *)
(***************************************************************************)
MainBlock ==
    /\ pc = "main_block"
    /\ LET r == PyInt(Getenv(environ, DefaultPortStr))
       IN  IF r.ok
           THEN /\ port' = r.value
                /\ pc' = "uvicorn_run"
                /\ UNCHANGED <<exc, traceback>>
           ELSE /\ Crash("ValueError")
                /\ UNCHANGED port
    /\ UNCHANGED <<environ, healthImport, metricsFault, health_router, routes,
                   on_startup, metrics_registry, log, lifecycle, listening,
                   responses, writes>>

(***************************************************************************)
(* Line 101: uvicorn.run(app, host="0.0.0.0", port=port).  The server      *)
(* first runs the application's startup handlers (lines 73-77), then       *)
(* opens its socket on the port it was given and serves.                   *)
(***************************************************************************)
startup_event_log == <<StartingInfo, StartedInfo>>

StartupEventChecksHealth ==
    /\ pc = "uvicorn_run"
    /\ log' = IF \E i \in DOMAIN on_startup : on_startup[i] = "startup_event"
              THEN log \o startup_event_log
              ELSE log
    /\ lifecycle' = IF health_router = "Present" THEN "Ready" ELSE lifecycle
    /\ pc' = "uvicorn_bind"
    /\ UNCHANGED <<environ, healthImport, metricsFault, health_router, routes,
                   on_startup, metrics_registry, port, listening, responses,
                   writes, exc, traceback>>

StartupEvent ==
    /\ pc = "uvicorn_run"
    /\ log' = IF \E i \in DOMAIN on_startup : on_startup[i] = "startup_event"
              THEN log \o startup_event_log
              ELSE log
    /\ lifecycle' = "Ready"
    /\ pc' = "uvicorn_bind"
    /\ UNCHANGED <<environ, healthImport, metricsFault, health_router, routes,
                   on_startup, metrics_registry, port, listening, responses,
                   writes, exc, traceback>>

Serve ==
    /\ pc = "uvicorn_bind"
    /\ listening' = {port}
    /\ pc' = "serving"
    /\ UNCHANGED <<environ, healthImport, metricsFault, health_router, routes,
                   on_startup, metrics_registry, log, lifecycle, port, responses,
                   writes, exc, traceback>>

(***************************************************************************)
(* A GET request, served while the process is listening.  The handlers of  *)
(* main.py hold no await, so each runs to completion before the next.      *)
(***************************************************************************)
Served(path, resp) == [path |-> path, response |-> resp]

BumpFirstSample(reg) ==
    IF reg.families # <<>> /\ reg.families[1].samples # <<>>
    THEN [reg EXCEPT !.families[1].samples[1].value = @ + 1]
    ELSE reg

HandleRequestRenderWrites(path) ==
    /\ pc = "serving"
    /\ Len(responses) < MaxRequests
    /\ responses' = Append(responses,
                           Served(path, Dispatch(routes, metrics_registry, path)))
    /\ metrics_registry' = IF Match(routes, path) = "metrics_endpoint"
                           THEN BumpFirstSample(metrics_registry)
                           ELSE metrics_registry
    /\ UNCHANGED <<pc, environ, healthImport, metricsFault, health_router, routes,
                   on_startup, log, lifecycle, port, listening,
                   writes, exc, traceback>>

HandleRequest(path) ==
    /\ pc = "serving"
    /\ Len(responses) < MaxRequests
    /\ responses' = Append(responses,
                           Served(path, Dispatch(routes, metrics_registry, path)))
    /\ UNCHANGED <<pc, environ, healthImport, metricsFault, health_router, routes,
                   on_startup, metrics_registry, log, lifecycle, port, listening,
                   writes, exc, traceback>>

Request == \E path \in RequestPaths : HandleRequest(path)

(***************************************************************************)
(* Specifications                                                          *)
(***************************************************************************)
\* The steps of the interpreter and of the server's start: no step waits.
Startup ==
    \/ ImportHealth
    \/ CreateApp
    \/ MetricsImport
    \/ MetricsCreateRegistry
    \/ MetricsCreateGauge
    \/ MetricsSetBuildInfo
    \/ MetricsBindRoute
    \/ MetricsExcept
    \/ RegisterHealth
    \/ DefineHandlers
    \/ MainBlock
    \/ StartupEvent
    \/ Serve

Next ==
    \/ ImportHealth
    \/ CreateApp
    \/ MetricsImport
    \/ MetricsCreateRegistry
    \/ MetricsCreateGauge
    \/ MetricsSetBuildInfo
    \/ MetricsBindRoute
    \/ MetricsExcept
    \/ RegisterHealth
    \/ DefineHandlers
    \/ MainBlock
    \/ StartupEvent
    \/ Serve
    \/ Request

Spec == Init /\ [][Next]_vars

\* The interpreter executes the module body statement after statement, and
\* uvicorn.run proceeds to serve; requests arrive or not as clients please.
FairSpec == Spec /\ WF_vars(Startup)

(***************************************************************************)
(* State predicates shared by the properties                               *)
(***************************************************************************)
Ready == lifecycle = "Ready"

Accepting == listening # {}

HealthBound == Paths(routes) \cap HealthPaths # {}

MetricsBound == "/metrics" \in Paths(routes)

\* The metrics try-block, its except clause included, has been left.
MetricsBlockDone ==
    \/ pc \in {"register_health", "define_handlers", "main_block",
               "uvicorn_run", "uvicorn_bind", "serving"}
    \/ pc = "crashed" /\ traceback = "main_block"

\* Every route of the module body has been bound.
RouteTableBuilt ==
    \/ pc \in {"main_block", "uvicorn_run", "uvicorn_bind", "serving"}
    \/ pc = "crashed" /\ traceback = "main_block"

\* SERVICE_PORT is unset, or holds text that int() accepts.
PortTextAccepted == PyInt(Getenv(environ, DefaultPortStr)).ok

Count(seq, x) == Cardinality({i \in DOMAIN seq : seq[i] = x})

RootResponses == {i \in DOMAIN responses : responses[i].path = "/"}

MetricsResponses == {i \in DOMAIN responses : responses[i].path = "/metrics"}

HealthResponses == {i \in DOMAIN responses : responses[i].path = "/health"}

(***************************************************************************)
(* C1  Always-available root: in every start-up configuration, once the    *)
(* service is Ready a GET / is answered by status 200 with a body whose    *)
(* service is "fks_futures" and whose version is "1.0.0"; it is never      *)
(* answered by a not-found or a 5xx.                                       *)
(***************************************************************************)
C1_AlwaysAvailableRoot ==
    /\ \A i \in RootResponses :
          /\ Ready
          /\ responses[i].response.status = 200
          /\ responses[i].response.body.service = "fks_futures"
          /\ responses[i].response.body.version = "1.0.0"
    /\ (Ready /\ Accepting) =>
          LET r == Dispatch(routes, metrics_registry, "/")
          IN  /\ r.status = 200
              /\ r.body.service = "fks_futures"
              /\ r.body.version = "1.0.0"

\* GET / has been answered by a process that loaded neither optional part.
C1_Witness ==
    /\ RootResponses # {}
    /\ healthImport = "ModuleNotFoundError"
    /\ health_router = "None"
    /\ metricsFault = "import"
    /\ ~MetricsBound

(***************************************************************************)
(* C3  The route table holds health routes only if the health component    *)
(* is Present; the Present/Absent decision is taken once during start-up   *)
(* and never changes; health routes enter the table only through the       *)
(* guarded registration that follows the load attempt.                     *)
(***************************************************************************)
C3_NoRouteForAbsent ==
    /\ [](HealthBound => health_router = "Present")
    /\ [](Accepting => health_router \in {"Present", "None"})
    /\ [][health_router # "unbound" => health_router' = health_router]_vars
    /\ [][(HealthBound' /\ ~HealthBound)
            => (pc = "register_health" /\ health_router = "Present")]_vars

\* A degraded process serves: the component is Absent and GET /health is not found.
C3_Witness ==
    /\ pc = "serving"
    /\ health_router = "None"
    /\ ~HealthBound
    /\ \E i \in HealthResponses : responses[i].response.status = 404

(***************************************************************************)
(* C7  Port configuration: with SERVICE_PORT set to the decimal text of a  *)
(* port p the service listens on p and on no other port; with SERVICE_PORT *)
(* unset it listens on 8015 and on no other port; the port is chosen once  *)
(* and stays the same for the life of the process.                         *)
(***************************************************************************)
RECURSIVE DecimalText(_)
DecimalText(n) ==
    LET d == n % 10
        c == CHOOSE ch \in DigitChars : DigitVal(ch) = d
    IN  IF n < 10 THEN <<c>> ELSE Append(DecimalText(n \div 10), c)

PortsAsked == {8015, 8080, 9999}

C7_PortConfiguration ==
    /\ [](Accepting =>
            /\ (~environ.set => listening = {8015})
            /\ \A p \in PortsAsked :
                  (environ.set /\ environ.value = DecimalText(p)) => listening = {p})
    /\ [][port # -1 => port' = port]_vars
    /\ [][Accepting => listening' = listening]_vars

\* The process listens with SERVICE_PORT=9999.
C7_Witness ==
    /\ pc = "serving"
    /\ environ = EnvSet(<<"9", "9", "9", "9">>)
    /\ listening = {9999}

(***************************************************************************)
(* C8  The body of GET / is the same in every start-up configuration: the  *)
(* three features in their order and endpoints = {health: "/health"},      *)
(* whether or not the health component and the metrics subsystem loaded.   *)
(***************************************************************************)
C8_Body ==
    [service   |-> "fks_futures",
     version   |-> "1.0.0",
     status    |-> "running",
     endpoints |-> [health |-> "/health"],
     features  |-> << "Futures market analysis",
                      "Signal generation",
                      "Integration with fks-app, fks-execution, fks-data" >>]

C8_RootBodyIndependent ==
    /\ \A i \in RootResponses : responses[i].response.body = C8_Body
    /\ Accepting => Dispatch(routes, metrics_registry, "/").body = C8_Body

\* GET / answered with the health component Absent and /metrics bound.
C8_Witness ==
    /\ \E i \in RootResponses : Len(responses[i].response.body.features) = 3
    /\ health_router = "None"
    /\ MetricsBound

(***************************************************************************)
(* C9  Metrics idempotence: rendering /metrics reads the registry and      *)
(* leaves it unchanged, so all renders of a process, however many and in   *)
(* whatever order the requests are served, return the same output.         *)
(***************************************************************************)
C9_MetricsIdempotent ==
    /\ [](\A i, j \in MetricsResponses :
             responses[i].response = responses[j].response)
    /\ [](\A i \in MetricsResponses :
             responses[i].response.status = 200
                => responses[i].response.body.text = generate_latest(metrics_registry))
    /\ [][responses' # responses => metrics_registry' = metrics_registry]_vars

\* /metrics has been rendered twice, another request in between.
C9_Witness ==
    /\ Len(responses) = 3
    /\ responses[1].path = "/metrics"
    /\ responses[1].response.status = 200
    /\ responses[2].path = "/"
    /\ responses[3].path = "/metrics"

(***************************************************************************)
(* C2  Graceful degradation: whatever failure the acquisition of the       *)
(* health module ends in (module missing, symbol missing, error raised     *)
(* while the module is imported), the failure is caught, the component     *)
(* becomes Absent, the process reaches Ready, GET /health is not found,    *)
(* and / and /metrics are bound as they are when the module loads.         *)
(***************************************************************************)
C2_GracefulDegradation ==
    /\ []((healthImport # "ok" /\ pc # "import_health")
            => (health_router = "None" /\ traceback # "import_health"))
    /\ (healthImport # "ok") ~> Ready
    /\ []((healthImport # "ok" /\ Accepting) =>
            /\ Dispatch(routes, metrics_registry, "/health").status = 404
            /\ Match(routes, "/") = "root"
            /\ (Match(routes, "/metrics") = "metrics_endpoint")
                  <=> (metricsFault = "none"))

(***************************************************************************)
(* C4  Metrics subsystem unavailable, as first stated: if a step of the    *)
(* metrics initialisation fails, no /metrics route is bound (GET /metrics  *)
(* is a not-found), a warning is logged and start-up continues to Ready;   *)
(* /metrics is bound only when every step succeeded, and then reads a      *)
(* registry that holds the build-info sample.                              *)
(***************************************************************************)
MetricsFailed == metricsFault # "none" /\ MetricsBlockDone

C4_Safety ==
    /\ [](MetricsFailed =>
            /\ ~MetricsBound
            /\ Dispatch(routes, metrics_registry, "/metrics") = NotFound
            /\ Count(log, MetricsWarning) = 1)
    /\ [](traceback \notin {"metrics_import", "metrics_registry", "metrics_gauge",
                            "metrics_set", "metrics_except"})
    /\ [](MetricsBound =>
            /\ metricsFault = "none"
            /\ HoldsBuildInfo(metrics_registry)
            /\ metrics_endpoint(metrics_registry).status = 200)
    /\ [](\A i \in MetricsResponses :
            responses[i].response.status = (IF metricsFault = "none" THEN 200 ELSE 404))

C5_ReadyIsFinal ==
    /\ [](lifecycle \in {"Initializing", "Ready"})
    /\ [][Ready => Ready']_vars
    /\ [](Ready => pc # "crashed")

HealthMissing == healthImport = "ModuleNotFoundError"

C6_OneWarning ==
    /\ [](HealthMissing => Count(log, HealthWarning) <= 1)
    /\ []((HealthMissing /\ pc # "import_health") => Count(log, HealthWarning) = 1)
    /\ [](HealthMissing => traceback # "import_health")

C10_Frozen ==
    /\ [](Accepting => (health_router # "unbound" /\ MetricsBlockDone))
    /\ [](responses # <<>> => Accepting)
    /\ []((Accepting /\ MetricsBound) => HoldsBuildInfo(metrics_registry))
    /\ [][Accepting => /\ metrics_registry' = metrics_registry
                       /\ writes' = writes
                       /\ health_router' = health_router
                       /\ routes' = routes]_vars

C10_Original ==
    /\ [](Accepting => writes = 1)
    /\ C10_Frozen

(***************************************************************************)
(* C10 as amended: the build-info sample is written at most once, exactly  *)
(* once when the metrics initialisation succeeds and not at all when it    *)
(* fails; the rest as first stated.                                        *)
(***************************************************************************)
C10_StartupOrdering ==
    /\ [](writes <= 1)
    /\ [](Accepting => (writes = 1 <=> metricsFault = "none"))
    /\ [](Accepting => (writes = 1 <=> MetricsBound))
    /\ C10_Frozen

\* Requests are being answered by a process that wrote the sample once.
C10_Witness ==
    /\ Accepting
    /\ writes = 1
    /\ health_router = "Present"
    /\ Len(responses) = 2

====
